---- MODULE Spec2Model ----
(***************************************************************************)
(* State-machine model of the three.js lighting sandbox: the SceneManager  *)
(* registry (lights map, objects map, scene graph, renderer), the          *)
(* LightController, the ObjectController and the EnvironmentController.    *)
(* One action per UI event handler or asynchronous callback.               *)
(*                                                                         *)
(* Real numbers are fixed-point hundredths: 1.0 is 100, 0.5 is 50.         *)
(* Identifiers are the strings the code builds (`${type}_${count}`).       *)
(***************************************************************************)
EXTENDS Integers, Sequences, FiniteSets, TLC

VARIABLES
    smLights,          \* SceneManager.lights : id -> live light
    smObjects,         \* SceneManager.objects : id -> live object
    scene,             \* children of SceneManager.scene (entity identities)
    sceneBackground,   \* scene.background
    sceneEnvironment,  \* scene.environment
    renderer,          \* renderer.toneMappingExposure / toneMapping
    lights,            \* LightController.lights : id -> LightData
    lightCounter,      \* LightController.lightCounter : type -> count
    lightPanel,        \* position captured by each rendered position control
    objects,           \* ObjectController.objects : id -> ObjectData
    objectCounter,     \* ObjectController.objectCounter
    modelCounter,      \* ObjectController.modelCounter
    modelLoads,        \* GLTF loads in flight
    objIndicators,     \* loading/error elements inside #objects-container
    objTimers,         \* pending 5 s timers of failed model loads
    revoked,           \* URL.revokeObjectURL calls per object URL
    currentSettings,   \* EnvironmentController.currentSettings
    envLoads,          \* HDR loads in flight
    envLoadCounter,    \* number of HDR loads started (names loads and elements)
    envDom,            \* #loading-env elements in the environment panel, in document order
    envTimers,         \* pending 5 s timers of failed HDR loads
    envOutcomes,       \* history: how each HDR load that settled ended
    rendered,          \* what the last render pass drew
    generated,         \* history: every identifier generated so far, with its kind
    last,              \* history: the handler that ran last and its arguments
    budget             \* remaining handler invocations of the explored session

vars == <<smLights, smObjects, scene, sceneBackground, sceneEnvironment, renderer,
          lights, lightCounter, lightPanel,
          objects, objectCounter, modelCounter, modelLoads, objIndicators, objTimers,
          revoked, currentSettings, envLoads, envLoadCounter, envDom, envTimers,
          envOutcomes, rendered, generated, last, budget>>

smVars == <<smLights, smObjects, scene>>
envSceneVars == <<sceneBackground, sceneEnvironment, renderer>>
lightVars == <<lights, lightCounter, lightPanel>>
objectVars == <<objects, objectCounter, modelCounter, modelLoads, objIndicators,
                objTimers, revoked>>
envVars == <<currentSettings, envLoads, envLoadCounter, envDom, envTimers, envOutcomes>>
frameVars == <<rendered>>

(***************************************************************************)
(* Bounds of the explored sessions.                                        *)
(***************************************************************************)
MaxLightCount == 2      \* cap of each per-type light counter
MaxObjectCount == 2     \* cap of objectCounter
MaxModelCount == 2      \* cap of modelCounter
MaxEnvLoads == 3        \* cap of HDR loads started
MaxOpsLight == 4        \* handler invocations explored by SpecLight
MaxOpsObject == 4       \* handler invocations explored by SpecObject
MaxOpsEnv == 7          \* handler invocations explored by SpecEnv
MaxOpsAll == 3          \* handler invocations explored by Spec
MaxOpsRegistry == 5     \* calls explored by SpecRegistry
MaxOpsRequests == 4     \* add and remove requests explored by SpecRequests

(***************************************************************************)
(* Values the UI controls deliver.                                         *)
(***************************************************************************)
LightTypes == {"ambient", "directional", "point", "spot"}
ObjectTypes == {"box", "sphere", "cylinder", "torus"}
Colors == {"#ffffff", "#ff0000"}            \* <input type=color> values
Intensities == {0, 500}                     \* range 0..5, step 0.1
LightPositionValues == {-1000, 0}           \* range -10..10, step 0.5
ObjectPositionValues == {-1000}             \* range -10..10, step 0.5
RotationDegrees == {90}                     \* range -180..180, step 5
ScaleValues == {300}                        \* range 0.1..5, step 0.1
UnitValues == {100}                         \* roughness / metalness 0..1, step 0.05
RandomPositions == {<<-200, 150>>}          \* the two draws of Math.random() * 4 - 2
Axes == {1, 2, 3}

Undefined == "undefined"
Null == "null"

\* `undefined` where a THREE entity is expected (Map.get of a missing key)
UndefinedEntity == [eid |-> Undefined]

\* `null` where scene.background / scene.environment hold a texture
NullTexture == [load |-> Null, preset |-> Null]

\* new THREE.Color(str) / material.color.set(str): the hex value of the string
ParseColor(str) ==
    CASE str = "#ffffff" -> 16777215
      [] str = "#ff0000" -> 16711680
      [] str = "#1a75ff" -> 1733119
      [] OTHER -> 0

Vector3(x, y, z) == <<x, y, z>>

\* the vector a per-axis slider builds: one axis replaced, the others taken from base
WithAxis(base, index, value) ==
    [i \in 1..3 |-> IF i = index THEN value ELSE base[i]]

\* newValue * (Math.PI / 180), in hundredths of a radian
DegToRad(deg) == (deg * 31416) \div 18000

MapSet(map, key, value) ==
    [k \in DOMAIN map \cup {key} |-> IF k = key THEN value ELSE map[k]]

MapDelete(map, key) == [k \in DOMAIN map \ {key} |-> map[k]]

SetField(rec, fld, value) ==
    [f \in DOMAIN rec \cup {fld} |-> IF f = fld THEN value ELSE rec[f]]

HelperKey(id) == id \o "_helper"

EmptyMap == [k \in {} |-> 0]

\* no loading/error element in #objects-container
EmptyIndicators == EmptyMap

(***************************************************************************)
(* SceneManager (src/src/utils/SceneManager.ts)                            *)
(***************************************************************************)
\* mutant: an identifier that is already a key keeps its first light
SceneManager_addLight_KeepsFirst(sm, id, light) ==
    IF id \in DOMAIN sm.lights
    THEN [sm EXCEPT !.scene = sm.scene \cup {light.eid}]
    ELSE [sm EXCEPT !.lights = MapSet(sm.lights, id, light),
                    !.scene = sm.scene \cup {light.eid}]

\* this.lights.set(id, light); this.scene.add(light)
SceneManager_addLight(sm, id, light) ==
    [sm EXCEPT !.lights = MapSet(sm.lights, id, light),
               !.scene = sm.scene \cup {light.eid}]

\* mutant: Map.clear() where Map.delete(id) was meant
SceneManager_removeLight_Clears(sm, id) ==
    IF id \in DOMAIN sm.lights
    THEN [sm EXCEPT !.scene = sm.scene \ {sm.lights[id].eid},
                    !.lights = EmptyMap]
    ELSE sm

SceneManager_removeLight(sm, id) ==
    IF id \in DOMAIN sm.lights
    THEN [sm EXCEPT !.scene = sm.scene \ {sm.lights[id].eid},
                    !.lights = MapDelete(sm.lights, id)]
    ELSE sm

SceneManager_addObject(sm, id, object) ==
    [sm EXCEPT !.objects = MapSet(sm.objects, id, object),
               !.scene = sm.scene \cup {object.eid}]

\* mutant: the object leaves the scene graph but its map entry stays
SceneManager_removeObject_SceneOnly(sm, id) ==
    IF id \in DOMAIN sm.objects
    THEN [sm EXCEPT !.scene = sm.scene \ {sm.objects[id].eid}]
    ELSE sm

SceneManager_removeObject(sm, id) ==
    IF id \in DOMAIN sm.objects
    THEN [sm EXCEPT !.scene = sm.scene \ {sm.objects[id].eid},
                    !.objects = MapDelete(sm.objects, id)]
    ELSE sm

SceneManager_getLight(sm, id) ==
    IF id \in DOMAIN sm.lights THEN sm.lights[id] ELSE UndefinedEntity

SceneManager_getObject(sm, id) ==
    IF id \in DOMAIN sm.objects THEN sm.objects[id] ELSE UndefinedEntity

\* mutant: the per-frame update resets the lights map
SceneManager_update_ClearsLights(sm, background, environment, rndr) ==
    [sm |-> [sm EXCEPT !.lights = EmptyMap],
     rendered |-> [children |-> sm.scene, background |-> background,
                   environment |-> environment,
                   toneMappingExposure |-> rndr.toneMappingExposure,
                   toneMapping |-> rndr.toneMapping]]

\* controls.update(); renderer.render(scene, camera): one render pass over the scene
\* graph with the renderer's current settings; the registry is handed back as it was
SceneManager_update(sm, background, environment, rndr) ==
    [sm |-> sm,
     rendered |-> [children |-> sm.scene, background |-> background,
                   environment |-> environment,
                   toneMappingExposure |-> rndr.toneMappingExposure,
                   toneMapping |-> rndr.toneMapping]]

\* `return light` / `return object` of addLight and addObject
SceneManager_addLight_result(sm, id, light) == light

SceneManager_addObject_result(sm, id, object) == object

\* `const light = this.lights.get(id); if (light) { ...; return true; } return false;`
SceneManager_removeLight_result(sm, id) == SceneManager_getLight(sm, id) # UndefinedEntity

SceneManager_removeObject_result(sm, id) ==
    SceneManager_getObject(sm, id) # UndefinedEntity

\* the registry as one value, and its write-back
SM == [lights |-> smLights, objects |-> smObjects, scene |-> scene]

SetSM(sm) ==
    /\ smLights' = sm.lights
    /\ smObjects' = sm.objects
    /\ scene' = sm.scene

\* setupGrid, setupDefaultLighting, setupDefaultObjects
DefaultAmbient ==
    [eid |-> "ambient_default", class |-> "AmbientLight", color |-> 4210752,
     intensity |-> 50, position |-> Vector3(0, 0, 0), castShadow |-> FALSE]

DefaultBox ==
    [eid |-> "box_default", class |-> "Mesh", position |-> Vector3(0, 50, 0),
     rotation |-> Vector3(0, 0, 0), scale |-> Vector3(100, 100, 100),
     color |-> 8947848, roughness |-> 50, metalness |-> 50]

DefaultPlane ==
    [eid |-> "plane_default", class |-> "Mesh", position |-> Vector3(0, 0, 0),
     rotation |-> Vector3(-157, 0, 0), scale |-> Vector3(100, 100, 100),
     color |-> 11184810, roughness |-> 80, metalness |-> 20]

SceneManager_init ==
    SceneManager_addObject(
        SceneManager_addObject(
            SceneManager_addLight(
                [lights |-> EmptyMap, objects |-> EmptyMap, scene |-> {"grid", "axes"}],
                "ambient_default", DefaultAmbient),
            "box_default", DefaultBox),
        "plane_default", DefaultPlane)

(***************************************************************************)
(* History and session bookkeeping shared by all handlers.                 *)
(***************************************************************************)
\* whether a controller holds a metadata record for id when a handler is entered
Present(id) == id \in DOMAIN lights \/ id \in DOMAIN objects

\* the assignments an edit handler makes, in the order of its statements: "live" is
\* the write to the entity the registry holds, "metadata" the write to the controller's
\* record, "helper" the helper's update(); empty when the handler's guard fails
HandlerWrites(op, id) ==
    LET lightGuard == id \in DOMAIN smLights /\ id \in DOMAIN lights
        objectGuard == id \in DOMAIN smObjects /\ id \in DOMAIN objects
        helperWrite == IF lightGuard /\ lights[id].helper # Undefined
                       THEN <<"helper">> ELSE <<>>
    IN CASE op \in {"updateLightColor", "updateLightPosition"} ->
              IF lightGuard THEN <<"live", "metadata">> \o helperWrite ELSE <<>>
         [] op = "updateLightIntensity" ->
              IF lightGuard THEN <<"live", "metadata">> ELSE <<>>
         [] op = "updateShadowCasting" ->
              IF lightGuard /\ smLights[id].class \in {"DirectionalLight", "SpotLight"}
              THEN <<"live", "metadata">> ELSE <<>>
         [] op \in {"updateObjectColor", "updateObjectRoughness",
                    "updateObjectMetalness"} ->
              IF objectGuard /\ smObjects[id].class = "Mesh"
              THEN <<"live", "metadata">> ELSE <<>>
         [] op \in {"updateObjectPosition", "updateObjectRotation",
                    "updateObjectScale"} ->
              IF objectGuard THEN <<"live", "metadata">> ELSE <<>>
         [] OTHER -> <<>>

Step(op, id, arg) ==
    /\ budget > 0
    /\ budget' = budget - 1
    /\ last' = [op |-> op, id |-> id, arg |-> arg, present |-> Present(id),
                writes |-> HandlerWrites(op, id)]

\* the identifier an add has built: its kind, how many times it was built, and whether
\* a metadata record (and so a panel entry with its controls) was ever created for it
Generate(id, kind, registered) ==
    generated' = MapSet(generated, id,
                        [kind |-> kind,
                         times |-> IF id \in DOMAIN generated
                                   THEN generated[id].times + 1 ELSE 1,
                         registered |-> registered])

Register(id) == generated' = [generated EXCEPT ![id].registered = TRUE]

\* handles the UI has shown: a handle outlives its entity when the entity is removed
LightHandles ==
    {[id |-> id, kind |-> generated[id].kind] :
        id \in {i \in DOMAIN generated : /\ generated[i].kind \in LightTypes
                                         /\ generated[i].registered}}
ObjectHandles ==
    {[id |-> id, kind |-> generated[id].kind] :
        id \in {i \in DOMAIN generated :
                   /\ generated[i].kind \in ObjectTypes \cup {"custom_model"}
                   /\ generated[i].registered}}

(***************************************************************************)
(* LightController (src/unnamed/part_000)                                  *)
(***************************************************************************)
\* mutant: the identifier is numbered by the size of the metadata map, not by the counter
LightId_BySize(type, count) == type \o "_" \o ToString(Cardinality(DOMAIN lights) + 1)

LightId(type, count) == type \o "_" \o ToString(count)

\* the THREE light addLight constructs for each kind
NewLight(type, id) ==
    CASE type = "ambient" ->
           [eid |-> id, class |-> "AmbientLight", color |-> 16777215,
            intensity |-> 100, position |-> Vector3(0, 0, 0), castShadow |-> FALSE]
      [] type = "directional" ->
           [eid |-> id, class |-> "DirectionalLight", color |-> 16777215,
            intensity |-> 100, position |-> Vector3(500, 500, 500), castShadow |-> TRUE]
      [] type = "point" ->
           [eid |-> id, class |-> "PointLight", color |-> 16777215,
            intensity |-> 100, position |-> Vector3(200, 200, 200), castShadow |-> FALSE]
      [] type = "spot" ->
           [eid |-> id, class |-> "SpotLight", color |-> 16777215,
            intensity |-> 100, position |-> Vector3(200, 500, 200), castShadow |-> TRUE]

HelperClass(type) ==
    CASE type = "directional" -> "DirectionalLightHelper"
      [] type = "point" -> "PointLightHelper"
      [] type = "spot" -> "SpotLightHelper"

\* helper.update(): the helper takes the colour and the position of its light
HelperUpdate(helper, light) ==
    [helper EXCEPT !.color = light.color, !.position = light.position]

\* new THREE.<Kind>LightHelper(light): the constructor ends with update()
NewHelper(type, id, light) ==
    HelperUpdate([eid |-> HelperKey(id), class |-> HelperClass(type), light |-> id,
                  color |-> 0, position |-> Vector3(0, 0, 0)], light)

\* the LightData record addLight stores
NewLightData(type, id) ==
    LET base == [id |-> id, type |-> type, color |-> "#ffffff", intensity |-> 100]
    IN CASE type = "ambient" -> SetField(base, "helper", Undefined)
         [] type = "directional" ->
              SetField(SetField(SetField(base, "position", Vector3(500, 500, 500)),
                                "castShadow", TRUE), "helper", HelperKey(id))
         [] type = "point" ->
              SetField(SetField(base, "position", Vector3(200, 200, 200)),
                       "helper", HelperKey(id))
         [] type = "spot" ->
              SetField(SetField(SetField(base, "position", Vector3(200, 500, 200)),
                                "castShadow", TRUE), "helper", HelperKey(id))

\* renderUI -> createPositionControls: `const position = lightData.position || ...`
\* is captured once per render by the three axis sliders of every non-ambient light
RenderLightPanel(lts) ==
    [id \in {i \in DOMAIN lts : lts[i].type # "ambient"} |->
        IF "position" \in DOMAIN lts[id] THEN lts[id].position ELSE Vector3(0, 0, 0)]

\* (this.lightCounter.get(type) || 0)
LightCount(type) == IF type \in DOMAIN lightCounter THEN lightCounter[type] ELSE 0

\* `default: throw new Error(...)` of the switch over the kind
LightController_addLight_throws(type) == type \notin LightTypes

\* mutant: the default case of the switch builds an ambient light instead of throwing
LightController_addLight_DefaultsToAmbient(type) ==
    LET count == LightCount(type) + 1
        id == LightId(type, count)
        kind == IF type \in LightTypes THEN type ELSE "ambient"
        light == NewLight(kind, id)
        sm1 == IF kind = "ambient" THEN SM
               ELSE SceneManager_addObject(SM, HelperKey(id), NewHelper(kind, id, light))
        sm2 == SceneManager_addLight(sm1, id, light)
        lts == MapSet(lights, id, NewLightData(kind, id))
    IN /\ lightCounter' = MapSet(lightCounter, type, count)
       /\ SetSM(sm2)
       /\ lights' = lts
       /\ lightPanel' = RenderLightPanel(lts)
       /\ IF type \in LightTypes THEN Generate(id, type, TRUE) ELSE generated' = generated

\* the counter is advanced before the switch; a kind the switch does not know throws
\* out of the handler before anything is registered
LightController_addLight(type) ==
    LET count == LightCount(type) + 1
        id == LightId(type, count)
        light == NewLight(type, id)
        sm1 == IF type = "ambient" THEN SM
               ELSE SceneManager_addObject(SM, HelperKey(id), NewHelper(type, id, light))
        sm2 == SceneManager_addLight(sm1, id, light)
        lts == MapSet(lights, id, NewLightData(type, id))
    IN IF LightController_addLight_throws(type)
       THEN /\ lightCounter' = MapSet(lightCounter, type, count)
            /\ UNCHANGED <<smVars, lights, lightPanel, generated>>
       ELSE /\ lightCounter' = MapSet(lightCounter, type, count)
            /\ SetSM(sm2)
            /\ lights' = lts
            /\ lightPanel' = RenderLightPanel(lts)
            /\ Generate(id, type, TRUE)

\* mutant: the metadata record is deleted but the live light stays registered
LightController_removeLight_KeepsLight(id) ==
    IF id \in DOMAIN lights
    THEN LET sm1 == IF lights[id].helper # Undefined
                    THEN SceneManager_removeObject(SM, HelperKey(id))
                    ELSE SM
             lts == MapDelete(lights, id)
         IN /\ SetSM(sm1)
            /\ lights' = lts
            /\ lightPanel' = RenderLightPanel(lts)
    ELSE UNCHANGED <<smVars, lights, lightPanel>>

\* mutant: the light and its record are removed but its helper stays registered
LightController_removeLight_KeepsHelper(id) ==
    IF id \in DOMAIN lights
    THEN LET sm2 == SceneManager_removeLight(SM, id)
             lts == MapDelete(lights, id)
         IN /\ SetSM(sm2)
            /\ lights' = lts
            /\ lightPanel' = RenderLightPanel(lts)
    ELSE UNCHANGED <<smVars, lights, lightPanel>>

LightController_removeLight(id) ==
    IF id \in DOMAIN lights
    THEN LET sm1 == IF lights[id].helper # Undefined
                    THEN SceneManager_removeObject(SM, HelperKey(id))
                    ELSE SM
             sm2 == SceneManager_removeLight(sm1, id)
             lts == MapDelete(lights, id)
         IN /\ SetSM(sm2)
            /\ lights' = lts
            /\ lightPanel' = RenderLightPanel(lts)
    ELSE UNCHANGED <<smVars, lights, lightPanel>>

\* `lightData.helper.update()`: the helper object the record references
RefreshHelper(objs, lts, lgts, id) ==
    IF lts[id].helper # Undefined /\ lts[id].helper \in DOMAIN objs
    THEN [objs EXCEPT ![lts[id].helper] = HelperUpdate(@, lgts[id])]
    ELSE objs

\* mutant: the helper is refreshed before the light takes the new colour
LightController_updateLightColor_HelperFirst(id, color) ==
    IF id \in DOMAIN smLights /\ id \in DOMAIN lights
    THEN LET lgts == [smLights EXCEPT ![id].color = ParseColor(color)]
             lts == [lights EXCEPT ![id].color = color]
         IN /\ smLights' = lgts
            /\ lights' = lts
            /\ smObjects' = RefreshHelper(smObjects, lts, smLights, id)
    ELSE UNCHANGED <<smLights, lights, smObjects>>

LightController_updateLightColor(id, color) ==
    IF id \in DOMAIN smLights /\ id \in DOMAIN lights
    THEN LET lgts == [smLights EXCEPT ![id].color = ParseColor(color)]
             lts == [lights EXCEPT ![id].color = color]
         IN /\ smLights' = lgts
            /\ lights' = lts
            /\ smObjects' = RefreshHelper(smObjects, lts, lgts, id)
    ELSE UNCHANGED <<smLights, lights, smObjects>>

\* mutant: only the metadata record takes the new intensity
LightController_updateLightIntensity_MetadataOnly(id, intensity) ==
    IF id \in DOMAIN smLights /\ id \in DOMAIN lights
    THEN /\ smLights' = smLights
         /\ lights' = [lights EXCEPT ![id].intensity = intensity]
    ELSE UNCHANGED <<smLights, lights>>

LightController_updateLightIntensity(id, intensity) ==
    IF id \in DOMAIN smLights /\ id \in DOMAIN lights
    THEN /\ smLights' = [smLights EXCEPT ![id].intensity = intensity]
         /\ lights' = [lights EXCEPT ![id].intensity = intensity]
    ELSE UNCHANGED <<smLights, lights>>

LightController_updateLightPosition(id, position) ==
    IF id \in DOMAIN smLights /\ id \in DOMAIN lights
    THEN LET lgts == [smLights EXCEPT ![id].position = position]
             lts == [lights EXCEPT ![id] = SetField(@, "position", position)]
         IN /\ smLights' = lgts
            /\ lights' = lts
            /\ smObjects' = RefreshHelper(smObjects, lts, lgts, id)
    ELSE UNCHANGED <<smLights, lights, smObjects>>

\* mutant: the flag is stored in the record but never set on the live light
LightController_updateShadowCasting_MetadataOnly(id, castShadow) ==
    IF /\ id \in DOMAIN smLights /\ id \in DOMAIN lights
       /\ smLights[id].class \in {"DirectionalLight", "SpotLight"}
    THEN /\ smLights' = smLights
         /\ lights' = [lights EXCEPT ![id] = SetField(@, "castShadow", castShadow)]
    ELSE UNCHANGED <<smLights, lights>>

LightController_updateShadowCasting(id, castShadow) ==
    IF /\ id \in DOMAIN smLights /\ id \in DOMAIN lights
       /\ smLights[id].class \in {"DirectionalLight", "SpotLight"}
    THEN /\ smLights' = [smLights EXCEPT ![id].castShadow = castShadow]
         /\ lights' = [lights EXCEPT ![id] = SetField(@, "castShadow", castShadow)]
    ELSE UNCHANGED <<smLights, lights>>

(***************************************************************************)
(* Light panel events                                                      *)
(***************************************************************************)
\* button.onclick = () => this.addLight(type)
AddLight ==
    \E type \in LightTypes :
        /\ lightCounter[type] < MaxLightCount
        /\ LightController_addLight(type)
        /\ Step("addLight", LightId(type, lightCounter[type] + 1), type)
        /\ UNCHANGED <<envSceneVars, objectVars, envVars, frameVars>>

\* removeButton.onclick = () => this.removeLight(lightData.id)
RemoveLight ==
    \E h \in LightHandles :
        /\ LightController_removeLight(h.id)
        /\ Step("removeLight", h.id, h.kind)
        /\ UNCHANGED <<envSceneVars, lightCounter, objectVars, envVars, frameVars, generated>>

\* colorInput.onchange
LightColorChange ==
    \E h \in LightHandles, color \in Colors :
        /\ LightController_updateLightColor(h.id, color)
        /\ Step("updateLightColor", h.id, color)
        /\ UNCHANGED <<scene, envSceneVars, lightCounter, lightPanel, objectVars,
                       envVars, frameVars, generated>>

\* intensityInput.oninput
LightIntensityInput ==
    \E h \in LightHandles, intensity \in Intensities :
        /\ LightController_updateLightIntensity(h.id, intensity)
        /\ Step("updateLightIntensity", h.id, intensity)
        /\ UNCHANGED <<smObjects, scene, envSceneVars, lightCounter, lightPanel,
                       objectVars, envVars, frameVars, generated>>

\* axisInput.oninput: the new vector is built from the position captured at render time
LightPositionInput ==
    \E h \in {g \in LightHandles : g.kind # "ambient"}, index \in Axes,
       newValue \in LightPositionValues :
        LET position == IF h.id \in DOMAIN lightPanel THEN lightPanel[h.id]
                        ELSE Vector3(0, 0, 0)
            newPosition == WithAxis(position, index, newValue)
        IN /\ LightController_updateLightPosition(h.id, newPosition)
           /\ Step("updateLightPosition", h.id, <<index, newValue>>)
           /\ UNCHANGED <<scene, envSceneVars, lightCounter, lightPanel, objectVars,
                          envVars, frameVars, generated>>

\* shadowCheck.onchange
LightShadowChange ==
    \E h \in {g \in LightHandles : g.kind \in {"directional", "spot"}},
       shouldCastShadow \in BOOLEAN :
        /\ LightController_updateShadowCasting(h.id, shouldCastShadow)
        /\ Step("updateShadowCasting", h.id, shouldCastShadow)
        /\ UNCHANGED <<smObjects, scene, envSceneVars, lightCounter, lightPanel,
                       objectVars, envVars, frameVars, generated>>

NextLight ==
    \/ AddLight
    \/ RemoveLight
    \/ LightColorChange
    \/ LightIntensityInput
    \/ LightPositionInput
    \/ LightShadowChange

(***************************************************************************)
(* ObjectController (src/src/components/ObjectController/ObjectController.tsx) *)
(***************************************************************************)
ObjectId(type, count) == type \o "_" \o ToString(count)

\* URL.createObjectURL(file): a fresh URL per call
ObjectURL(count) == "blob:" \o ToString(count)

\* bounding boxes of uploaded models (Box3.setFromObject), min and max corners
BoundingBoxes ==
    { [min |-> Vector3(-50, 0, -50), max |-> Vector3(50, 100, 50)],
      [min |-> Vector3(100, 200, -100), max |-> Vector3(300, 1200, 100)] }

Max2(a, b) == IF a >= b THEN a ELSE b

BoxCenter(box) == [i \in 1..3 |-> (box.min[i] + box.max[i]) \div 2]
BoxSize(box) == [i \in 1..3 |-> box.max[i] - box.min[i]]

\* the position and scale the success callback gives the decoded model
ModelPosition(box) ==
    Vector3(0 - BoxCenter(box)[1],
            0 - BoxCenter(box)[2] + BoxSize(box)[2] \div 2,
            0 - BoxCenter(box)[3])

ModelScale(box) ==
    LET size == BoxSize(box)
        maxDimension == Max2(size[1], Max2(size[2], size[3]))
    IN IF maxDimension > 500
       THEN LET scale == (500 * 100) \div maxDimension
            IN Vector3(scale, scale, scale)
       ELSE Vector3(100, 100, 100)

\* renderUI(): `this.container.innerHTML = ''` drops every loading/error element
RenderObjectPanel == EmptyIndicators

\* `default: throw new Error(...)` of the switch over the kind
ObjectController_addObject_throws(type) == type \notin ObjectTypes

\* objectCounter++ precedes the switch; an unknown kind throws before the mesh is built
ObjectController_addObject(type, rx, rz) ==
    LET count == objectCounter + 1
        id == ObjectId(type, count)
        position == Vector3(rx, 50, rz)
        mesh == [eid |-> id, class |-> "Mesh", position |-> position,
                 rotation |-> Vector3(0, 0, 0), scale |-> Vector3(100, 100, 100),
                 color |-> 1733119, roughness |-> 50, metalness |-> 20]
        objectData == [id |-> id, type |-> type, position |-> position,
                       rotation |-> Vector3(0, 0, 0), scale |-> Vector3(100, 100, 100),
                       color |-> "#1a75ff", roughness |-> 50, metalness |-> 20,
                       isCustomModel |-> FALSE, modelUrl |-> Undefined]
    IN IF ObjectController_addObject_throws(type)
       THEN /\ objectCounter' = count
            /\ UNCHANGED <<smVars, objects, objIndicators, generated>>
       ELSE /\ objectCounter' = count
            /\ SetSM(SceneManager_addObject(SM, id, mesh))
            /\ objects' = MapSet(objects, id, objectData)
            /\ objIndicators' = RenderObjectPanel
            /\ Generate(id, type, TRUE)

\* mutant: the metadata record survives the removal
ObjectController_removeObject_KeepsRecord(id) ==
    IF id \in DOMAIN objects
    THEN /\ SetSM(SceneManager_removeObject(SM, id))
         /\ objects' = objects
         /\ revoked' = IF objects[id].isCustomModel /\ objects[id].modelUrl # Undefined
                       THEN MapSet(revoked, objects[id].modelUrl,
                                   IF objects[id].modelUrl \in DOMAIN revoked
                                   THEN revoked[objects[id].modelUrl] + 1 ELSE 1)
                       ELSE revoked
         /\ objIndicators' = RenderObjectPanel
    ELSE UNCHANGED <<smVars, objects, revoked, objIndicators>>

ObjectController_removeObject(id) ==
    IF id \in DOMAIN objects
    THEN /\ SetSM(SceneManager_removeObject(SM, id))
         /\ objects' = MapDelete(objects, id)
         /\ revoked' = IF objects[id].isCustomModel /\ objects[id].modelUrl # Undefined
                       THEN MapSet(revoked, objects[id].modelUrl,
                                   IF objects[id].modelUrl \in DOMAIN revoked
                                   THEN revoked[objects[id].modelUrl] + 1 ELSE 1)
                       ELSE revoked
         /\ objIndicators' = RenderObjectPanel
    ELSE UNCHANGED <<smVars, objects, revoked, objIndicators>>

\* `object && objectData && object instanceof THREE.Mesh`
IsMeshEdit(id) ==
    /\ id \in DOMAIN smObjects
    /\ id \in DOMAIN objects
    /\ smObjects[id].class = "Mesh"

\* mutant: `instanceof THREE.Mesh` guards the material write only
ObjectController_updateObjectColor_GuardsMaterialOnly(id, color) ==
    IF id \in DOMAIN smObjects /\ id \in DOMAIN objects
    THEN /\ smObjects' = IF smObjects[id].class = "Mesh"
                         THEN [smObjects EXCEPT ![id].color = ParseColor(color)]
                         ELSE smObjects
         /\ objects' = [objects EXCEPT ![id].color = color]
    ELSE UNCHANGED <<smObjects, objects>>

ObjectController_updateObjectColor(id, color) ==
    IF IsMeshEdit(id)
    THEN /\ smObjects' = [smObjects EXCEPT ![id].color = ParseColor(color)]
         /\ objects' = [objects EXCEPT ![id].color = color]
    ELSE UNCHANGED <<smObjects, objects>>

ObjectController_updateObjectRoughness(id, roughness) ==
    IF IsMeshEdit(id)
    THEN /\ smObjects' = [smObjects EXCEPT ![id].roughness = roughness]
         /\ objects' = [objects EXCEPT ![id].roughness = roughness]
    ELSE UNCHANGED <<smObjects, objects>>

ObjectController_updateObjectMetalness(id, metalness) ==
    IF IsMeshEdit(id)
    THEN /\ smObjects' = [smObjects EXCEPT ![id].metalness = metalness]
         /\ objects' = [objects EXCEPT ![id].metalness = metalness]
    ELSE UNCHANGED <<smObjects, objects>>

\* mutant: a missing record is created instead of the call being ignored
ObjectController_updateObjectPosition_Upsert(id, position) ==
    IF id \in DOMAIN smObjects /\ id \in DOMAIN objects
    THEN /\ smObjects' = [smObjects EXCEPT ![id].position = position]
         /\ objects' = [objects EXCEPT ![id].position = position]
    ELSE /\ smObjects' = smObjects
         /\ objects' = MapSet(objects, id, [id |-> id, position |-> position])

ObjectController_updateObjectPosition(id, position) ==
    IF id \in DOMAIN smObjects /\ id \in DOMAIN objects
    THEN /\ smObjects' = [smObjects EXCEPT ![id].position = position]
         /\ objects' = [objects EXCEPT ![id].position = position]
    ELSE UNCHANGED <<smObjects, objects>>

ObjectController_updateObjectRotation(id, rotation) ==
    IF id \in DOMAIN smObjects /\ id \in DOMAIN objects
    THEN /\ smObjects' = [smObjects EXCEPT ![id].rotation = rotation]
         /\ objects' = [objects EXCEPT ![id].rotation = rotation]
    ELSE UNCHANGED <<smObjects, objects>>

ObjectController_updateObjectScale(id, scale) ==
    IF id \in DOMAIN smObjects /\ id \in DOMAIN objects
    THEN /\ smObjects' = [smObjects EXCEPT ![id].scale = scale]
         /\ objects' = [objects EXCEPT ![id].scale = scale]
    ELSE UNCHANGED <<smObjects, objects>>

\* handleModelUpload up to gltfLoader.load(...): URL, counter, loading element, load started
ObjectController_handleModelUpload ==
    LET count == modelCounter + 1
        id == ObjectId("model", count)
    IN /\ modelCounter' = count
       /\ objIndicators' = MapSet(objIndicators, id, "Loading model")
       /\ modelLoads' = modelLoads \cup {[id |-> id, url |-> ObjectURL(count)]}
       /\ Generate(id, "custom_model", FALSE)

\* mutant: the success callback stores the record but never calls sceneManager.addObject
ModelLoadSuccess_MetadataOnly(load, box) ==
    LET objectData == [id |-> load.id, type |-> "custom_model",
                       position |-> Vector3(0, 0, 0), rotation |-> Vector3(0, 0, 0),
                       scale |-> Vector3(100, 100, 100), color |-> "#ffffff",
                       roughness |-> 50, metalness |-> 20,
                       isCustomModel |-> TRUE, modelUrl |-> load.url]
    IN /\ modelLoads' = modelLoads \ {load}
       /\ SetSM(SM)
       /\ objects' = MapSet(objects, load.id, objectData)
       /\ objIndicators' = RenderObjectPanel
       /\ Register(load.id)

\* gltfLoader.load success callback
ModelLoadSuccess(load, box) ==
    LET model == [eid |-> load.id, class |-> "Group", position |-> ModelPosition(box),
                  rotation |-> Vector3(0, 0, 0), scale |-> ModelScale(box)]
        objectData == [id |-> load.id, type |-> "custom_model",
                       position |-> Vector3(0, 0, 0), rotation |-> Vector3(0, 0, 0),
                       scale |-> Vector3(100, 100, 100), color |-> "#ffffff",
                       roughness |-> 50, metalness |-> 20,
                       isCustomModel |-> TRUE, modelUrl |-> load.url]
    IN /\ modelLoads' = modelLoads \ {load}
       /\ SetSM(SceneManager_addObject(SM, load.id, model))
       /\ objects' = MapSet(objects, load.id, objectData)
       /\ objIndicators' = RenderObjectPanel
       /\ Register(load.id)

\* gltfLoader.load progress callback
ModelLoadProgress(load) ==
    objIndicators' = IF load.id \in DOMAIN objIndicators
                     THEN [objIndicators EXCEPT ![load.id] = "Loading model 50%"]
                     ELSE objIndicators

\* gltfLoader.load error callback
ModelLoadError(load) ==
    /\ modelLoads' = modelLoads \ {load}
    /\ IF load.id \in DOMAIN objIndicators
       THEN /\ objIndicators' = [objIndicators EXCEPT ![load.id] = "Error loading model"]
            /\ objTimers' = objTimers \cup {load.id}
       ELSE UNCHANGED <<objIndicators, objTimers>>

\* setTimeout(() => loadingElement.remove(), 5000)
ModelErrorTimeout(id) ==
    /\ objTimers' = objTimers \ {id}
    /\ objIndicators' = MapDelete(objIndicators, id)

(***************************************************************************)
(* Object panel events and loader callbacks                                *)
(***************************************************************************)
\* button.onclick = () => this.addObject(objType.type)
AddObject ==
    \E type \in ObjectTypes, r \in RandomPositions :
        /\ objectCounter < MaxObjectCount
        /\ ObjectController_addObject(type, r[1], r[2])
        /\ Step("addObject", ObjectId(type, objectCounter + 1), type)
        /\ UNCHANGED <<envSceneVars, lightVars, modelCounter, modelLoads, objTimers,
                       revoked, envVars, frameVars>>

\* removeButton.onclick = () => this.removeObject(objectData.id)
RemoveObject ==
    \E h \in ObjectHandles :
        /\ ObjectController_removeObject(h.id)
        /\ Step("removeObject", h.id, h.kind)
        /\ UNCHANGED <<envSceneVars, lightVars, objectCounter, modelCounter, modelLoads,
                       objTimers, envVars, frameVars, generated>>

PrimitiveHandles == {g \in ObjectHandles : g.kind \in ObjectTypes}
ModelHandles == {g \in ObjectHandles : g.kind = "custom_model"}

objectEditFrame == <<smLights, scene, envSceneVars, lightVars, objectCounter, modelCounter,
                     modelLoads, objIndicators, objTimers, revoked, envVars, frameVars, generated>>

\* colorInput.onchange, roughnessInput.oninput, metalnessInput.oninput:
\* rendered for primitives only (`if (!objectData.isCustomModel)`)
ObjectMaterialInput ==
    \E h \in PrimitiveHandles :
        /\ \/ \E color \in Colors :
                /\ ObjectController_updateObjectColor(h.id, color)
                /\ Step("updateObjectColor", h.id, color)
           \/ \E roughness \in UnitValues :
                /\ ObjectController_updateObjectRoughness(h.id, roughness)
                /\ Step("updateObjectRoughness", h.id, roughness)
           \/ \E metalness \in UnitValues :
                /\ ObjectController_updateObjectMetalness(h.id, metalness)
                /\ Step("updateObjectMetalness", h.id, metalness)
        /\ UNCHANGED objectEditFrame

\* the three material handlers invoked with the identifier of an imported model
ModelMaterialEdit ==
    \E h \in ModelHandles :
        /\ \/ \E color \in Colors :
                /\ ObjectController_updateObjectColor(h.id, color)
                /\ Step("updateObjectColor", h.id, color)
           \/ \E roughness \in UnitValues :
                /\ ObjectController_updateObjectRoughness(h.id, roughness)
                /\ Step("updateObjectRoughness", h.id, roughness)
           \/ \E metalness \in UnitValues :
                /\ ObjectController_updateObjectMetalness(h.id, metalness)
                /\ Step("updateObjectMetalness", h.id, metalness)
        /\ UNCHANGED objectEditFrame

\* the record a slider closure reads (`objectData.position.x`, ...); the handle of a
\* removed object still holds its record, whose vectors the handlers then ignore
SliderBase(id, fld) ==
    IF id \in DOMAIN objects THEN objects[id][fld] ELSE Vector3(0, 0, 0)

\* axisInput.oninput of createPositionControls
ObjectPositionInput ==
    \E h \in ObjectHandles, index \in Axes, newValue \in ObjectPositionValues :
        /\ ObjectController_updateObjectPosition(
               h.id, WithAxis(SliderBase(h.id, "position"), index, newValue))
        /\ Step("updateObjectPosition", h.id, <<index, newValue>>)
        /\ UNCHANGED objectEditFrame

\* angleInput.oninput of createRotationControls
ObjectRotationInput ==
    \E h \in ObjectHandles, index \in Axes, newValue \in RotationDegrees :
        /\ ObjectController_updateObjectRotation(
               h.id, WithAxis(SliderBase(h.id, "rotation"), index, DegToRad(newValue)))
        /\ Step("updateObjectRotation", h.id, <<index, DegToRad(newValue)>>)
        /\ UNCHANGED objectEditFrame

\* scaleInput.oninput of createScaleControls
ObjectScaleInput ==
    \E h \in ObjectHandles, index \in Axes, newValue \in ScaleValues :
        /\ ObjectController_updateObjectScale(
               h.id, WithAxis(SliderBase(h.id, "scale"), index, newValue))
        /\ Step("updateObjectScale", h.id, <<index, newValue>>)
        /\ UNCHANGED objectEditFrame

\* modelUploadInput.onchange
ModelUpload ==
    /\ modelCounter < MaxModelCount
    /\ ObjectController_handleModelUpload
    /\ Step("handleModelUpload", ObjectId("model", modelCounter + 1), "custom_model")
    /\ UNCHANGED <<smVars, envSceneVars, lightVars, objects, objectCounter, objTimers,
                   revoked, envVars, frameVars>>

ModelLoaded ==
    \E load \in modelLoads, box \in BoundingBoxes :
        /\ ModelLoadSuccess(load, box)
        /\ Step("modelLoaded", load.id, box)
        /\ UNCHANGED <<envSceneVars, lightVars, objectCounter, modelCounter, objTimers,
                       revoked, envVars, frameVars>>

ModelProgress ==
    \E load \in modelLoads :
        /\ ModelLoadProgress(load)
        /\ Step("modelProgress", load.id, 50)
        /\ UNCHANGED <<smVars, envSceneVars, lightVars, objects, objectCounter,
                       modelCounter, modelLoads, objTimers, revoked, envVars, frameVars, generated>>

ModelFailed ==
    \E load \in modelLoads :
        /\ ModelLoadError(load)
        /\ Step("modelFailed", load.id, "error")
        /\ UNCHANGED <<smVars, envSceneVars, lightVars, objects, objectCounter,
                       modelCounter, revoked, envVars, frameVars, generated>>

ModelTimerFires ==
    \E id \in objTimers :
        /\ ModelErrorTimeout(id)
        /\ Step("modelErrorTimeout", id, "timer")
        /\ UNCHANGED <<smVars, envSceneVars, lightVars, objects, objectCounter,
                       modelCounter, modelLoads, revoked, envVars, frameVars, generated>>

NextObject ==
    \/ AddObject
    \/ RemoveObject
    \/ ObjectMaterialInput
    \/ ModelMaterialEdit
    \/ ObjectPositionInput
    \/ ObjectRotationInput
    \/ ObjectScaleInput
    \/ ModelUpload
    \/ ModelLoaded
    \/ ModelProgress
    \/ ModelFailed
    \/ ModelTimerFires

(***************************************************************************)
(* EnvironmentController                                                   *)
(* (src/src/components/EnvironmentController/EnvironmentController.tsx)    *)
(***************************************************************************)
Presets == {"none", "forest", "city"}       \* three of the eleven hdrPresets keys
ToneMappings == {1, 4}                      \* LinearToneMapping, ACESFilmicToneMapping
Exposures == {100, 200}                     \* range 0.1..3, step 0.1

\* names the n-th HDR load and the #loading-env element created for it
EnvLoadName(n) == "env_" \o ToString(n)

\* document.getElementById('loading-env'): the first such element in document order
FirstLoadingEnv == IF envDom = <<>> THEN Null ELSE envDom[1].elem

RemoveElement(dom, elem) == SelectSeq(dom, LAMBDA e : e.elem # elem)

SetElementText(dom, elem, text) ==
    [i \in DOMAIN dom |-> IF dom[i].elem = elem THEN [dom[i] EXCEPT !.text = text]
                          ELSE dom[i]]

\* hdrCubeRenderTarget.texture of a load
EnvTexture(load) == [load |-> load.name, preset |-> load.preset]

\* mutant: the none branch clears the environment map but leaves the background
EnvironmentController_updateEnvironment_KeepsBackground(settings) ==
    IF settings.preset = "none"
    THEN /\ renderer' = [toneMappingExposure |-> settings.toneMappingExposure,
                         toneMapping |-> settings.toneMapping]
         /\ sceneEnvironment' = NullTexture
         /\ sceneBackground' = sceneBackground
         /\ UNCHANGED <<envLoads, envLoadCounter, envDom>>
    ELSE LET name == EnvLoadName(envLoadCounter + 1)
         IN /\ envLoadCounter < MaxEnvLoads
            /\ envLoadCounter' = envLoadCounter + 1
            /\ envDom' = Append(envDom, [elem |-> name, text |-> "Loading environment..."])
            /\ envLoads' = envLoads \cup {[name |-> name, preset |-> settings.preset]}
            /\ UNCHANGED <<renderer, sceneEnvironment, sceneBackground>>

\* updateEnvironment(), with the settings the event handler has just stored
EnvironmentController_updateEnvironment(settings) ==
    IF settings.preset = "none"
    THEN /\ renderer' = [toneMappingExposure |-> settings.toneMappingExposure,
                         toneMapping |-> settings.toneMapping]
         /\ sceneEnvironment' = NullTexture
         /\ sceneBackground' = NullTexture
         /\ UNCHANGED <<envLoads, envLoadCounter, envDom>>
    ELSE LET name == EnvLoadName(envLoadCounter + 1)
         IN /\ envLoadCounter < MaxEnvLoads
            /\ envLoadCounter' = envLoadCounter + 1
            /\ envDom' = Append(envDom, [elem |-> name, text |-> "Loading environment..."])
            /\ envLoads' = envLoads \cup {[name |-> name, preset |-> settings.preset]}
            /\ UNCHANGED <<renderer, sceneEnvironment, sceneBackground>>

\* rgbeLoader.load success callback
EnvLoadSuccess(load) ==
    /\ envLoads' = envLoads \ {load}
    /\ sceneEnvironment' = EnvTexture(load)
    /\ sceneBackground' = EnvTexture(load)
    /\ renderer' = [toneMappingExposure |-> currentSettings.toneMappingExposure,
                    toneMapping |-> currentSettings.toneMapping]
    /\ envDom' = IF FirstLoadingEnv # Null THEN RemoveElement(envDom, FirstLoadingEnv)
                 ELSE envDom

\* rgbeLoader.load error callback
EnvLoadError(load) ==
    /\ envLoads' = envLoads \ {load}
    /\ IF FirstLoadingEnv # Null
       THEN /\ envDom' = SetElementText(envDom, FirstLoadingEnv, "Error loading environment")
            /\ envTimers' = envTimers \cup {[by |-> load.name, elem |-> FirstLoadingEnv]}
       ELSE UNCHANGED <<envDom, envTimers>>

\* setTimeout(() => loadingElement.remove(), 5000)
EnvErrorTimeout(timer) ==
    /\ envTimers' = envTimers \ {timer}
    /\ envDom' = RemoveElement(envDom, timer.elem)

(***************************************************************************)
(* Environment panel events and loader callbacks                           *)
(***************************************************************************)
envFrame == <<smVars, lightVars, objectVars, frameVars, generated>>

\* presetSelect.onchange
PresetChange ==
    \E newPreset \in Presets \ {currentSettings.preset} :
        LET settings == [currentSettings EXCEPT !.preset = newPreset]
        IN /\ currentSettings' = settings
           /\ EnvironmentController_updateEnvironment(settings)
           /\ Step("presetChange", EnvLoadName(envLoadCounter + 1), newPreset)
           /\ UNCHANGED <<envTimers, envOutcomes, envFrame>>

\* toneMappingSelect.onchange
ToneMappingChange ==
    \E newToneMapping \in ToneMappings \ {currentSettings.toneMapping} :
        LET settings == [currentSettings EXCEPT !.toneMapping = newToneMapping]
        IN /\ currentSettings' = settings
           /\ EnvironmentController_updateEnvironment(settings)
           /\ Step("toneMappingChange", EnvLoadName(envLoadCounter + 1), newToneMapping)
           /\ UNCHANGED <<envTimers, envOutcomes, envFrame>>

\* exposureInput.oninput
ExposureInput ==
    \E newExposure \in Exposures \ {currentSettings.toneMappingExposure} :
        LET settings == [currentSettings EXCEPT !.toneMappingExposure = newExposure]
        IN /\ currentSettings' = settings
           /\ EnvironmentController_updateEnvironment(settings)
           /\ Step("exposureInput", EnvLoadName(envLoadCounter + 1), newExposure)
           /\ UNCHANGED <<envTimers, envOutcomes, envFrame>>

EnvLoaded ==
    \E load \in envLoads :
        /\ EnvLoadSuccess(load)
        /\ Step("envLoaded", load.name, load.preset)
        /\ envOutcomes' = MapSet(envOutcomes, load.name, "loaded")
        /\ UNCHANGED <<currentSettings, envLoadCounter, envTimers, envFrame>>

EnvFailed ==
    \E load \in envLoads :
        /\ EnvLoadError(load)
        /\ Step("envFailed", load.name, load.preset)
        /\ envOutcomes' = MapSet(envOutcomes, load.name, "failed")
        /\ UNCHANGED <<currentSettings, envLoadCounter, envSceneVars, envFrame>>

EnvTimerFires ==
    \E timer \in envTimers :
        /\ EnvErrorTimeout(timer)
        /\ Step("envErrorTimeout", timer.by, timer.elem)
        /\ UNCHANGED <<currentSettings, envLoads, envLoadCounter, envOutcomes,
                       envSceneVars, envFrame>>

NextEnv ==
    \/ PresetChange
    \/ ToneMappingChange
    \/ ExposureInput
    \/ EnvLoaded
    \/ EnvFailed
    \/ EnvTimerFires

(***************************************************************************)
(* The SceneManager's public methods called directly, with any identifier  *)
(* and any entity a caller may pass.                                       *)
(***************************************************************************)
RegistryIds == {"point_1", "spot_1"}

RegistryLights == {NewLight("point", "pointLightA"), NewLight("spot", "spotLightB")}

RegistryObjects ==
    { [eid |-> "meshA", class |-> "Mesh", position |-> Vector3(0, 0, 0),
       rotation |-> Vector3(0, 0, 0), scale |-> Vector3(100, 100, 100),
       color |-> 16777215, roughness |-> 50, metalness |-> 20],
      [eid |-> "groupB", class |-> "Group", position |-> Vector3(0, 0, 0),
       rotation |-> Vector3(0, 0, 0), scale |-> Vector3(100, 100, 100)] }

\* one call of a public method: its arguments, whether the identifier was a key of
\* the method's map when the call was made, and what the call returned
Call(op, id, arg, present, result) ==
    /\ budget > 0
    /\ budget' = budget - 1
    /\ last' = [op |-> op, id |-> id, arg |-> arg, present |-> present,
                 result |-> result]

registryFrame == <<envSceneVars, lightVars, objectVars, envVars, frameVars, generated>>

RegistryAddLight ==
    \E id \in RegistryIds, light \in RegistryLights :
        /\ SetSM(SceneManager_addLight(SM, id, light))
        /\ Call("SceneManager.addLight", id, light, id \in DOMAIN smLights,
                SceneManager_addLight_result(SM, id, light))
        /\ UNCHANGED registryFrame

RegistryRemoveLight ==
    \E id \in RegistryIds :
        /\ SetSM(SceneManager_removeLight(SM, id))
        /\ Call("SceneManager.removeLight", id, "", id \in DOMAIN smLights,
                SceneManager_removeLight_result(SM, id))
        /\ UNCHANGED registryFrame

RegistryAddObject ==
    \E id \in RegistryIds, object \in RegistryObjects :
        /\ SetSM(SceneManager_addObject(SM, id, object))
        /\ Call("SceneManager.addObject", id, object, id \in DOMAIN smObjects,
                SceneManager_addObject_result(SM, id, object))
        /\ UNCHANGED registryFrame

RegistryRemoveObject ==
    \E id \in RegistryIds :
        /\ SetSM(SceneManager_removeObject(SM, id))
        /\ Call("SceneManager.removeObject", id, "", id \in DOMAIN smObjects,
                SceneManager_removeObject_result(SM, id))
        /\ UNCHANGED registryFrame

NextRegistry ==
    \/ RegistryAddLight
    \/ RegistryRemoveLight
    \/ RegistryAddObject
    \/ RegistryRemoveObject

(***************************************************************************)
(* Initial state: after `new App()` (constructors, then every init()).     *)
(***************************************************************************)
\* EnvironmentController constructor: preset none, exposure 1.0, ACESFilmicToneMapping (4)
InitialSettings == [preset |-> "none", toneMappingExposure |-> 100, toneMapping |-> 4]

InitState ==
    /\ smLights = SceneManager_init.lights
    /\ smObjects = SceneManager_init.objects
    /\ scene = SceneManager_init.scene
    /\ sceneBackground = NullTexture
    /\ sceneEnvironment = NullTexture
    /\ renderer = [toneMappingExposure |-> InitialSettings.toneMappingExposure,
                   toneMapping |-> InitialSettings.toneMapping]
    /\ lights = EmptyMap
    /\ lightCounter = [t \in LightTypes |-> 0]
    /\ lightPanel = EmptyMap
    /\ objects = EmptyMap
    /\ objectCounter = 0
    /\ modelCounter = 0
    /\ modelLoads = {}
    /\ objIndicators = EmptyMap
    /\ objTimers = {}
    /\ revoked = EmptyMap
    /\ currentSettings = InitialSettings
    /\ envLoads = {}
    /\ envLoadCounter = 0
    /\ envDom = <<>>
    /\ envTimers = {}
    /\ envOutcomes = EmptyMap
    /\ rendered = SceneManager_update(SceneManager_init, NullTexture, NullTexture,
                                      [toneMappingExposure |->
                                           InitialSettings.toneMappingExposure,
                                       toneMapping |-> InitialSettings.toneMapping]
                                     ).rendered
    /\ generated = EmptyMap
    /\ last = [op |-> "init", id |-> "", arg |-> "", present |-> FALSE, writes |-> <<>>]

InitLight == InitState /\ budget = MaxOpsLight

SpecLight == InitLight /\ [][NextLight]_vars

InitObject == InitState /\ budget = MaxOpsObject

SpecObject == InitObject /\ [][NextObject]_vars

InitEnv == InitState /\ budget = MaxOpsEnv

SpecEnv == InitEnv /\ [][NextEnv]_vars

(***************************************************************************)
(* Requests to create an entity of a kind the switch statements do not     *)
(* know, next to the panels' add and remove events.                        *)
(***************************************************************************)
UnsupportedLightKinds == {"hemisphere"}
UnsupportedObjectKinds == {"cone"}

UnsupportedLightRequest ==
    \E type \in UnsupportedLightKinds :
        /\ LightCount(type) < MaxLightCount
        /\ LightController_addLight(type)
        /\ Call("addLight", LightId(type, LightCount(type) + 1), type, FALSE,
                IF LightController_addLight_throws(type)
                THEN "Error: Unsupported light type" ELSE "")
        /\ UNCHANGED <<envSceneVars, objectVars, envVars, frameVars>>

UnsupportedObjectRequest ==
    \E type \in UnsupportedObjectKinds, r \in RandomPositions :
        /\ objectCounter < MaxObjectCount
        /\ ObjectController_addObject(type, r[1], r[2])
        /\ Call("addObject", ObjectId(type, objectCounter + 1), type, FALSE,
                IF ObjectController_addObject_throws(type)
                THEN "Error: Unsupported object type" ELSE "")
        /\ UNCHANGED <<envSceneVars, lightVars, modelCounter, modelLoads, objTimers,
                       revoked, envVars, frameVars>>

NextRequests ==
    \/ AddLight
    \/ RemoveLight
    \/ AddObject
    \/ RemoveObject
    \/ UnsupportedLightRequest
    \/ UnsupportedObjectRequest

InitRequests == InitState /\ budget = MaxOpsRequests

SpecRequests == InitRequests /\ [][NextRequests]_vars

InitRegistry == InitState /\ budget = MaxOpsRegistry

SpecRegistry == InitRegistry /\ [][NextRegistry]_vars

\* App.animate: requestAnimationFrame(() => this.animate()); this.sceneManager.update()
Animate ==
    LET frame == SceneManager_update(SM, sceneBackground, sceneEnvironment, renderer)
    IN /\ SetSM(frame.sm)
       /\ rendered' = frame.rendered
       /\ Step("update", "", "frame")
       /\ UNCHANGED <<envSceneVars, lightVars, objectVars, envVars, generated>>

\* the whole application: the three panels share one registry and one event loop
Init == InitState /\ budget = MaxOpsAll

Next == NextLight \/ NextObject \/ NextEnv \/ Animate

Spec == Init /\ [][Next]_vars

(***************************************************************************)
(* Properties                                                              *)
(***************************************************************************)
DefaultObjectKeys == {"box_default", "plane_default"}

\* C1: for every light kind, addLight(kind) creates exactly one metadata record and
\* exactly one lights-map entry, both under the same identifier, which was in neither
\* map before; removeLight(id) of a light that has a record removes exactly these two
\* entries, and after any removeLight(id) neither map has an entry for id.
C1_AddRemoveLight ==
    [][ /\ last'.op = "addLight" =>
            /\ last'.arg \in LightTypes
            /\ last'.id \notin DOMAIN lights \cup DOMAIN smLights
            /\ DOMAIN lights' = DOMAIN lights \cup {last'.id}
            /\ DOMAIN smLights' = DOMAIN smLights \cup {last'.id}
            /\ lights'[last'.id].id = last'.id
            /\ lights'[last'.id].type = last'.arg
            /\ smLights'[last'.id].eid = last'.id
        /\ last'.op = "removeLight" =>
            /\ DOMAIN lights' = DOMAIN lights \ {last'.id}
            /\ DOMAIN smLights' = DOMAIN smLights \ {last'.id}
            /\ last'.id \notin DOMAIN lights' \cup DOMAIN smLights'
      ]_vars

\* a light was added and then removed, as the only two events of the session
C1_Witness ==
    /\ last.op = "removeLight"
    /\ last.present
    /\ budget = MaxOpsLight - 2
    /\ lightCounter[last.arg] = 1
    /\ last.id \notin DOMAIN lights \cup DOMAIN smLights

\* C2: between handlers, the metadata identifiers of the LightController are the keys
\* of the lights map other than ambient_default, and those of the ObjectController are
\* the keys of the objects map other than the two default objects and the helper keys
\* of the lights that have a record.
C2_NoOrphans ==
    /\ DOMAIN lights = DOMAIN smLights \ {"ambient_default"}
    /\ DOMAIN objects =
          DOMAIN smObjects \ (DefaultObjectKeys \cup {HelperKey(id) : id \in DOMAIN lights})

\* a light with a helper and an imported model are registered side by side
C2_Witness ==
    /\ \E id \in DOMAIN lights : lights[id].helper # Undefined
    /\ \E id \in DOMAIN objects : objects[id].isCustomModel
    /\ last.op = "modelLoaded"

\* C3: every identifier an add builds was never built before in the session and is, at
\* the moment of its insertion, no key of the registry map it goes into (a light's
\* helper key included; an imported model is inserted when its decode succeeds).
C3_FreshIdentifiers ==
    [][ /\ \A id \in DOMAIN generated' :
              (id \notin DOMAIN generated \/ generated'[id].times # generated[id].times) =>
                  /\ id \notin DOMAIN generated
                  /\ generated'[id].kind \in LightTypes =>
                        /\ id \notin DOMAIN smLights
                        /\ HelperKey(id) \notin DOMAIN smObjects
                  /\ generated'[id].kind \in ObjectTypes => id \notin DOMAIN smObjects
        /\ last'.op \in {"addLight", "addObject", "handleModelUpload"} =>
              /\ last'.id \notin DOMAIN generated
              /\ last'.id \in DOMAIN generated'
        /\ last'.op = "modelLoaded" => last'.id \notin DOMAIN smObjects
      ]_vars

\* a kind was added, removed and added again
C3_Witness ==
    /\ last.op = "addLight"
    /\ lightCounter[last.arg] = 2
    /\ DOMAIN lights = {last.id}
    /\ budget = MaxOpsAll - 3

\* C4: after updateLightIntensity(id, v) on a light that has a record, the record's
\* intensity and the intensity of the live light registered under id are both v.
C4_IntensitySync ==
    (last.op = "updateLightIntensity" /\ last.present) =>
        /\ last.id \in DOMAIN lights
        /\ last.id \in DOMAIN smLights
        /\ lights[last.id].intensity = last.arg
        /\ smLights[last.id].intensity = last.arg

\* the slider's upper end, 5, was set on a light
C4_Witness ==
    /\ last.op = "updateLightIntensity"
    /\ last.present
    /\ last.arg = 500
    /\ smLights[last.id].intensity = 500

\* everything but the history of the session
stateVars == <<smLights, smObjects, scene, sceneBackground, sceneEnvironment, renderer,
               lights, lightCounter, lightPanel,
               objects, objectCounter, modelCounter, modelLoads, objIndicators,
               objTimers, revoked, currentSettings, envLoads, envLoadCounter, envDom,
               envTimers, rendered>>

TransformOps == {"updateObjectPosition", "updateObjectRotation", "updateObjectScale"}
MaterialOps == {"updateObjectColor", "updateObjectRoughness", "updateObjectMetalness"}
LightEditOps == {"updateLightColor", "updateLightIntensity", "updateLightPosition",
                 "updateShadowCasting"}

TransformField(op) ==
    CASE op = "updateObjectPosition" -> "position"
      [] op = "updateObjectRotation" -> "rotation"
      [] op = "updateObjectScale" -> "scale"

\* C5: a slider edit of one axis of the position, rotation or scale of a tracked object
\* (primitive or imported model) sets that axis to the slider's value in the live entity
\* and in the metadata record, and leaves the other two axes of that transform as they
\* were in both.
C5_SliderEditsOneAxis ==
    [][ (last'.op \in TransformOps /\ last'.present) =>
            LET id == last'.id
                fld == TransformField(last'.op)
                index == last'.arg[1]
                value == last'.arg[2]
            IN /\ smObjects'[id][fld][index] = value
               /\ objects'[id][fld][index] = value
               /\ \A j \in Axes \ {index} :
                     /\ smObjects'[id][fld][j] = smObjects[id][fld][j]
                     /\ objects'[id][fld][j] = objects[id][fld][j]
      ]_vars

\* C6: after updateLightColor(id, c) on a light that has a record, the live light's
\* colour is c, the record's colour is c, and the light's helper, if it has one, shows
\* c: it was refreshed in the handler after the light changed.
C6_ColorAndHelper ==
    (last.op = "updateLightColor" /\ last.present) =>
        /\ smLights[last.id].color = ParseColor(last.arg)
        /\ lights[last.id].color = last.arg
        /\ lights[last.id].helper # Undefined =>
              /\ lights[last.id].helper \in DOMAIN smObjects
              /\ smObjects[lights[last.id].helper].color = ParseColor(last.arg)

\* a point light was set to #ff0000 and its helper shows it
C6_Witness ==
    /\ last.op = "updateLightColor"
    /\ last.present
    /\ last.arg = "#ff0000"
    /\ lights[last.id].type = "point"
    /\ smObjects[HelperKey(last.id)].color = 16711680

\* C7: the URL of an imported model is released exactly once, by the first
\* removeObject of its identifier; a removeObject of an identifier without a record
\* changes nothing, a removeObject of a primitive releases nothing, and no other
\* handler releases anything.
C7_ReleaseOnce ==
    /\ [](\A url \in DOMAIN revoked : revoked[url] = 1)
    /\ [][ /\ (last'.op = "removeObject" /\ last'.present) =>
                IF objects[last'.id].isCustomModel
                THEN /\ objects[last'.id].modelUrl \notin DOMAIN revoked
                     /\ revoked' = MapSet(revoked, objects[last'.id].modelUrl, 1)
                     /\ last'.id \notin DOMAIN objects'
                ELSE revoked' = revoked
           /\ (last'.op = "removeObject" /\ ~last'.present) => UNCHANGED stateVars
           /\ last'.op # "removeObject" => revoked' = revoked
         ]_vars

\* an imported model was removed, releasing its URL, and then removed a second time
C7_Witness ==
    /\ last.op = "removeObject"
    /\ ~last.present
    /\ last.arg = "custom_model"
    /\ last.id = ObjectId("model", 1)
    /\ DOMAIN revoked = {ObjectURL(1)}
    /\ revoked[ObjectURL(1)] = 1

\* C8: updateObjectColor, updateObjectRoughness and updateObjectMetalness on the
\* identifier of a registered imported model change no metadata record, no live entity
\* and nothing else.
C8_ModelMaterialNoOp ==
    [][ (/\ last'.op \in MaterialOps
         /\ last'.present
         /\ objects[last'.id].isCustomModel) => UNCHANGED stateVars ]_vars

\* a colour edit was issued on a registered imported model
C8_Witness ==
    /\ last.op = "updateObjectColor"
    /\ last.present
    /\ last.id \in DOMAIN objects
    /\ objects[last.id].isCustomModel
    /\ smObjects[last.id].class = "Group"

\* the elements of the environment panel that still read "Loading environment..."
LoadingElements == {i \in DOMAIN envDom : envDom[i].text = "Loading environment..."}

\* C9: a preset other than none adds a loading element and starts one load; when that
\* load succeeds, background and environment are its map and its loading indicator is
\* gone, so that no more loading indicators are shown than loads are still in flight;
\* when it fails an element shows the error, and the element a timer was set for is
\* gone once the timer has fired.
C9_PresetLoadLifecycle ==
    /\ (last.op = "presetChange" /\ last.arg # "none") =>
          /\ \E load \in envLoads : load.name = last.id /\ load.preset = last.arg
          /\ \E i \in DOMAIN envDom :
                envDom[i] = [elem |-> last.id, text |-> "Loading environment..."]
    /\ last.op = "envLoaded" =>
          /\ Cardinality(LoadingElements) <= Cardinality(envLoads)
          /\ sceneBackground = [load |-> last.id, preset |-> last.arg]
          /\ sceneEnvironment = [load |-> last.id, preset |-> last.arg]
    /\ last.op = "envFailed" =>
          \E i \in DOMAIN envDom : envDom[i].text = "Error loading environment"
    /\ last.op = "envErrorTimeout" =>
          \A i \in DOMAIN envDom : envDom[i].elem # last.arg

\* C10: an edit or a remove invoked with an identifier that has no record any more
\* leaves every metadata map, both registry maps, the scene and everything else as it
\* was.
C10_StaleIdentifierNoOp ==
    [][ (/\ last'.op \in LightEditOps \cup MaterialOps \cup TransformOps
                          \cup {"removeLight", "removeObject"}
         /\ ~last'.present) => UNCHANGED stateVars ]_vars

\* an edit arrived for an identifier whose entity had been removed
C10_Witness ==
    /\ last.op \in LightEditOps \cup MaterialOps \cup TransformOps
    /\ ~last.present
    /\ last.id \in DOMAIN generated
    /\ generated[last.id].registered

\* C11: SceneManager.addLight(id, light) with an id that is already a key of the lights
\* map is rejected: it returns no light and changes neither the maps nor the scene;
\* likewise SceneManager.addObject(id, object) with an id already in the objects map.
C11_DuplicateAddRejected ==
    [][ (/\ last'.op \in {"SceneManager.addLight", "SceneManager.addObject"}
         /\ last'.present) =>
            /\ UNCHANGED smVars
            /\ last'.result # last'.arg ]_vars

\* C12: removeLight(id) returns true exactly when the lights map had an entry for id
\* before the call; then that entry and no other is removed and the objects map is as
\* it was; otherwise it returns false and maps and scene are unchanged. The same for
\* removeObject and the objects map.
C12_RemoveReturnsWhetherRemoved ==
    [][ /\ last'.op = "SceneManager.removeLight" =>
            /\ last'.result = (last'.id \in DOMAIN smLights)
            /\ smObjects' = smObjects
            /\ IF last'.id \in DOMAIN smLights
               THEN /\ DOMAIN smLights' = DOMAIN smLights \ {last'.id}
                    /\ \A j \in DOMAIN smLights' : smLights'[j] = smLights[j]
               ELSE UNCHANGED smVars
        /\ last'.op = "SceneManager.removeObject" =>
            /\ last'.result = (last'.id \in DOMAIN smObjects)
            /\ smLights' = smLights
            /\ IF last'.id \in DOMAIN smObjects
               THEN /\ DOMAIN smObjects' = DOMAIN smObjects \ {last'.id}
                    /\ \A j \in DOMAIN smObjects' : smObjects'[j] = smObjects[j]
               ELSE UNCHANGED smVars
      ]_vars

\* a light was removed while another light stayed registered, and the call returned true
C12_Witness ==
    /\ last.op = "SceneManager.removeLight"
    /\ last.present
    /\ last.result = TRUE
    /\ last.id \notin DOMAIN smLights
    /\ \E j \in RegistryIds : j \in DOMAIN smLights

\* the identifiers whose lookups are compared
LookupIds == RegistryIds \cup DOMAIN smLights \cup DOMAIN smObjects

\* C13: getLight(id) is absent before any add under id; an addLight(id, light) makes it
\* that light, a removeLight(id) makes it absent, and no call on another identifier or
\* on the objects map changes it. The same for getObject and the objects map.
C13_GetReturnsLatestAdd ==
    /\ \A id \in RegistryIds :
          /\ SceneManager_getLight(SceneManager_init, id) = UndefinedEntity
          /\ SceneManager_getObject(SceneManager_init, id) = UndefinedEntity
    /\ [][ \A id \in LookupIds :
              /\ SceneManager_getLight(SM', id) =
                    CASE last'.op = "SceneManager.addLight" /\ last'.id = id -> last'.arg
                      [] last'.op = "SceneManager.removeLight" /\ last'.id = id -> UndefinedEntity
                      [] OTHER -> SceneManager_getLight(SM, id)
              /\ SceneManager_getObject(SM', id) =
                    CASE last'.op = "SceneManager.addObject" /\ last'.id = id -> last'.arg
                      [] last'.op = "SceneManager.removeObject" /\ last'.id = id -> UndefinedEntity
                      [] OTHER -> SceneManager_getObject(SM, id)
          ]_vars

\* a second light was added under an identifier that already had one, and the lookup
\* returns the second
C13_Witness ==
    /\ last.op = "SceneManager.addLight"
    /\ last.present
    /\ SceneManager_getLight(SM, last.id) = last.arg
    /\ last.arg.eid \in scene
    /\ Cardinality({e \in scene : e \in {l.eid : l \in RegistryLights}}) = 2

\* C14: SceneManager.update(), run by the frame loop between any two events, leaves the
\* lights map, the objects map and both controllers' metadata maps as they were.
C14_UpdateKeepsMaps ==
    [][ last'.op = "update" => UNCHANGED <<smLights, smObjects, lights, objects>> ]_vars

\* a frame was rendered while a model decode was in flight and a light was registered
C14_Witness ==
    /\ last.op = "update"
    /\ modelLoads # {}
    /\ \E id \in DOMAIN lights : id \in rendered.children
    /\ rendered.children = scene

EnvChangeOps == {"presetChange", "toneMappingChange", "exposureInput"}

\* C15: a change of any environment setting that leaves the preset at none clears the
\* scene background and the scene environment and sets the renderer's exposure and
\* tone mapping to the settings just stored, within the handler; it starts no load and
\* creates no loading element.
C15_NoneClearsAndApplies ==
    [][ (last'.op \in EnvChangeOps /\ currentSettings'.preset = "none") =>
            /\ sceneBackground' = NullTexture
            /\ sceneEnvironment' = NullTexture
            /\ renderer' = [toneMappingExposure |-> currentSettings'.toneMappingExposure,
                            toneMapping |-> currentSettings'.toneMapping]
            /\ UNCHANGED <<envLoads, envLoadCounter, envDom>> ]_vars

\* a loaded environment map was cleared by selecting none
C15_Witness ==
    /\ last.op = "presetChange"
    /\ last.arg = "none"
    /\ \E name \in DOMAIN envOutcomes : envOutcomes[name] = "loaded"
    /\ envLoads = {}
    /\ envDom = <<>>
    /\ sceneBackground = NullTexture
    /\ sceneEnvironment = NullTexture

\* C16: whenever no environment load is in flight and none has failed, background and
\* environment are the map of the currently selected preset, and null when that
\* preset is none.
C16_NewestSelectionWins ==
    (/\ envLoads = {}
     /\ \A name \in DOMAIN envOutcomes : envOutcomes[name] # "failed") =>
        IF currentSettings.preset = "none"
        THEN sceneBackground = NullTexture /\ sceneEnvironment = NullTexture
        ELSE /\ sceneBackground.preset = currentSettings.preset
             /\ sceneEnvironment.preset = currentSettings.preset

\* the identifiers handleModelUpload has built, and those whose decode is in flight
ModelIds == {id \in DOMAIN generated : generated[id].kind = "custom_model"}
ModelsInFlight == {load.id : load \in modelLoads}

\* C17: while the decode of an imported model is in flight neither the metadata map
\* nor the objects registry has an entry for its identifier; a successful decode, which
\* only a decode in flight can have, gives each exactly one entry for it; a failed
\* decode gives none and ends the decode, no identifier is decoded twice, and an
\* identifier without entry gets one by its successful decode only.
C17_RegisteredOnDecodeOnly ==
    /\ [](\A id \in ModelsInFlight : id \notin DOMAIN objects \cup DOMAIN smObjects)
    /\ [][ /\ last'.op = "modelLoaded" =>
               /\ last'.id \in ModelsInFlight
               /\ last'.id \in DOMAIN objects'
               /\ objects'[last'.id].id = last'.id
               /\ objects'[last'.id].isCustomModel
               /\ Cardinality({k \in DOMAIN smObjects' :
                                  smObjects'[k].eid = last'.id}) = 1
               /\ last'.id \in DOMAIN smObjects'
           /\ last'.op = "modelFailed" =>
               /\ last'.id \in ModelsInFlight
               /\ last'.id \notin ModelsInFlight'
               /\ last'.id \notin DOMAIN objects' \cup DOMAIN smObjects'
           /\ \A id \in ModelIds :
                 /\ id \notin ModelsInFlight => id \notin ModelsInFlight'
                 /\ (/\ id \notin DOMAIN objects \cup DOMAIN smObjects
                     /\ ~(last'.op = "modelLoaded" /\ last'.id = id)) =>
                         id \notin DOMAIN objects' \cup DOMAIN smObjects'
          ]_vars

\* one upload failed and stays unregistered while a later upload was decoded and
\* registered
C17_Witness ==
    /\ last.op = "modelLoaded"
    /\ last.id = ObjectId("model", 2)
    /\ ObjectId("model", 1) \in ModelIds \ ModelsInFlight
    /\ ~generated[ObjectId("model", 1)].registered
    /\ DOMAIN objects = {ObjectId("model", 2)}
    /\ ObjectId("model", 2) \in DOMAIN smObjects
    /\ ObjectId("model", 1) \notin DOMAIN smObjects

\* C18: when the decode of an upload fails, an error message for that upload is shown
\* and a timer is set for it, whatever re-rendered the object panel while the decode
\* was in flight; when the timer fires the message is gone.
C18_DecodeErrorShown ==
    /\ last.op = "modelFailed" =>
          /\ last.id \in DOMAIN objIndicators
          /\ objIndicators[last.id] = "Error loading model"
          /\ last.id \in objTimers
    /\ last.op = "modelErrorTimeout" => last.id \notin DOMAIN objIndicators

\* C19: once no environment load is in flight and no dismissal timer is pending, the
\* environment panel holds no loading element and no error element.
C19_EnvPanelSettles ==
    (envLoads = {} /\ envTimers = {}) => envDom = <<>>

HelperKinds == {"directional", "point", "spot"}
HelperClasses == {HelperClass(kind) : kind \in HelperKinds}

\* every identifier the session knows
KnownIds == DOMAIN generated \cup DOMAIN lights \cup DOMAIN objects
            \cup DOMAIN smLights \cup DOMAIN smObjects

\* C20: between handlers the objects registry has the key '<id>_helper' exactly for
\* the identifiers id of the directional, point and spot records the LightController
\* holds, and every helper entity in the registry is registered under such a key.
C20_HelperIffRecord ==
    /\ \A id \in KnownIds :
          HelperKey(id) \in DOMAIN smObjects <=>
              (id \in DOMAIN lights /\ lights[id].type \in HelperKinds)
    /\ \A key \in DOMAIN smObjects :
          smObjects[key].class \in HelperClasses =>
              \E id \in DOMAIN lights : key = HelperKey(id)

\* an ambient light without helper stands next to a point light with its helper, after
\* a spot light and its helper were removed
C20_Witness ==
    /\ last.op = "removeLight"
    /\ last.present
    /\ last.arg = "spot"
    /\ HelperKey(last.id) \notin DOMAIN smObjects
    /\ \E a \in DOMAIN lights : lights[a].type = "ambient"
    /\ \E b \in DOMAIN lights :
          lights[b].type = "point" /\ HelperKey(b) \in DOMAIN smObjects

\* C21: in every state the light panel's events lead to, the record of an ambient
\* light has neither position nor castShadow, the record of a point light has a
\* position and no castShadow, and the record of a directional or spot light has a
\* position and a castShadow flag equal to castShadow of its live light.
C21_LightRecordShape ==
    \A id \in DOMAIN lights :
        CASE lights[id].type = "ambient" ->
               /\ "position" \notin DOMAIN lights[id]
               /\ "castShadow" \notin DOMAIN lights[id]
          [] lights[id].type = "point" ->
               /\ "position" \in DOMAIN lights[id]
               /\ "castShadow" \notin DOMAIN lights[id]
          [] lights[id].type \in {"directional", "spot"} ->
               /\ "position" \in DOMAIN lights[id]
               /\ "castShadow" \in DOMAIN lights[id]
               /\ lights[id].castShadow \in BOOLEAN
               /\ id \in DOMAIN smLights
               /\ lights[id].castShadow = smLights[id].castShadow

\* shadow casting was switched off on a spot light that stands next to an ambient and
\* a point light
C21_Witness ==
    /\ last.op = "updateShadowCasting"
    /\ last.present
    /\ last.arg = FALSE
    /\ lights[last.id].type = "spot"
    /\ lights[last.id].castShadow = FALSE
    /\ smLights[last.id].castShadow = FALSE
    /\ \E a \in DOMAIN lights : lights[a].type = "ambient"
    /\ \E b \in DOMAIN lights : lights[b].type = "point"

\* C22: between handlers, every object the ObjectController tracks, primitive or
\* imported model, has a live entity under its identifier whose position, rotation and
\* scale equal those of its metadata record.
C22_TransformLockstep ==
    \A id \in DOMAIN objects :
        /\ id \in DOMAIN smObjects
        /\ objects[id].position = smObjects[id].position
        /\ objects[id].rotation = smObjects[id].rotation
        /\ objects[id].scale = smObjects[id].scale

\* C23: a position-slider edit of one axis of a light leaves the other two coordinates
\* of the live light and of its record as they were immediately before the edit, also
\* when earlier slider edits of the same rendering changed them.
C23_LightSliderEditsOneAxis ==
    [][ (last'.op = "updateLightPosition" /\ last'.present) =>
            LET id == last'.id
                index == last'.arg[1]
                value == last'.arg[2]
            IN /\ smLights'[id].position[index] = value
               /\ lights'[id].position[index] = value
               /\ \A j \in Axes \ {index} :
                     /\ smLights'[id].position[j] = smLights[id].position[j]
                     /\ lights'[id].position[j] = lights[id].position[j]
      ]_vars

\* C24: the object URL of every upload whose decode has settled is either the modelUrl
\* of exactly one metadata record or has been released.
C24_NoUnownedHandle ==
    \A n \in 1..modelCounter :
        ObjectId("model", n) \notin ModelsInFlight =>
            \/ Cardinality({id \in DOMAIN objects :
                               objects[id].modelUrl = ObjectURL(n)}) = 1
            \/ ObjectURL(n) \in DOMAIN revoked

\* C25: whenever no environment load is in flight, the renderer's exposure and tone
\* mapping are the EnvironmentController's current exposure and tone mapping.
C25_RendererFollowsSettings ==
    envLoads = {} =>
        /\ renderer.toneMappingExposure = currentSettings.toneMappingExposure
        /\ renderer.toneMapping = currentSettings.toneMapping

\* what setupGrid put into the scene graph without the registry
SceneFixtures == {"grid", "axes"}

\* C26: after any sequence of addLight, removeLight, addObject and removeObject calls
\* the entities in the scene graph placed there through these calls are exactly the
\* values of the lights map and of the objects map.
C26_SceneMatchesRegistry ==
    scene \ SceneFixtures =
        {smLights[id].eid : id \in DOMAIN smLights}
            \cup {smObjects[id].eid : id \in DOMAIN smObjects}

\* the corners of a model's bounding box in the scene: its local box scaled about the
\* model's origin and moved by the model's position
WorldMin(model, box) ==
    [i \in 1..3 |-> model.position[i] + (model.scale[i] * box.min[i]) \div 100]
WorldMax(model, box) ==
    [i \in 1..3 |-> model.position[i] + (model.scale[i] * box.max[i]) \div 100]

\* C27: after a successful import the registered model's bounding box is centred on
\* the origin in X and in Z and its lowest point is on the ground plane y = 0, whether
\* or not the model was rescaled.
C27_ModelCentredOnGround ==
    (last.op = "modelLoaded" /\ last.id \in DOMAIN smObjects) =>
        LET model == smObjects[last.id]
            box == last.arg
        IN /\ WorldMin(model, box)[1] + WorldMax(model, box)[1] = 0
           /\ WorldMin(model, box)[3] + WorldMax(model, box)[3] = 0
           /\ WorldMin(model, box)[2] = 0

\* C28: a request to addLight or addObject with a kind outside the supported set raises
\* an error and adds no metadata record, no registry entry, no helper and nothing to
\* the scene.
C28_UnsupportedKindRaises ==
    [][ (\/ last'.op = "addLight" /\ last'.arg \notin LightTypes
         \/ last'.op = "addObject" /\ last'.arg \notin ObjectTypes) =>
            /\ last'.result \in {"Error: Unsupported light type",
                                  "Error: Unsupported object type"}
            /\ UNCHANGED <<lights, objects, smLights, smObjects, scene>>
            /\ last'.id \notin DOMAIN lights' \cup DOMAIN objects'
            /\ last'.id \notin DOMAIN smLights' \cup DOMAIN smObjects'
            /\ HelperKey(last'.id) \notin DOMAIN smObjects' ]_vars

\* a light of an unknown kind was requested while a light and an object exist
C28_Witness ==
    /\ last.op = "addLight"
    /\ last.arg \in UnsupportedLightKinds
    /\ last.result = "Error: Unsupported light type"
    /\ DOMAIN lights # {}
    /\ DOMAIN objects # {}
    /\ LightCount(last.arg) = 1

\* the position of a write in the sequence of a handler's writes, 0 if it is not made
WriteIndex(writes, target) ==
    IF \E i \in DOMAIN writes : writes[i] = target
    THEN CHOOSE i \in DOMAIN writes : writes[i] = target
    ELSE 0

\* C29: every edit handler of the two controllers that passes its guard writes the
\* metadata record first and the live entity second.
C29_MetadataWrittenFirst ==
    (last.op \in LightEditOps \cup MaterialOps \cup TransformOps /\ last.writes # <<>>) =>
        /\ WriteIndex(last.writes, "metadata") > 0
        /\ WriteIndex(last.writes, "live") > 0
        /\ WriteIndex(last.writes, "metadata") < WriteIndex(last.writes, "live")

====
